---- MODULE Spec2Model ----
(***************************************************************************)
(* Job posting monitor (app.py): the "Run Now" monitoring run, the target  *)
(* registry save, the snapshot directories and the result log.             *)
(*                                                                         *)
(* A Python str is modelled as a sequence of units; a unit is one          *)
(* character ("\r", "\n", ".", " ", "_", "/", "-") or an indivisible run   *)
(* of word characters ("jobs", "not", "visa sponsorship", "nan", ...).     *)
(***************************************************************************)
EXTENDS Integers, Sequences, FiniteSets, TLC

VARIABLES
    targets_file,       \* rows of targets.xlsx (INPUT_FILE), << >> when absent
    results_file,       \* results.xlsx (OUTPUT_FILE): [exists, rows]
    Latest_Snapshot,    \* directory Latest_Snapshot: filename -> file content
    Old_Snapshot,       \* directory Old_Snapshot: filename -> file content
    pc,                 \* "ready" | "loop" | "complete" | "exception"
    idx,                \* position of the for loop over df_targets
    results,            \* the run's list of result rows
    current_date,       \* the run's timestamp string
    take_archives,      \* the archive checkbox, as read by the run
    zot,                \* TRUE when the run holds a Zotero client
    screenshot_client,  \* TRUE when the run holds a screenshot client
    fetched,            \* history: the responses of the run in progress
    last_fetched,       \* history: the responses of the last completed run
    prev_fetched        \* history: the responses of the completed run before it

vars == <<targets_file, results_file, Latest_Snapshot, Old_Snapshot, pc, idx,
          results, current_date, take_archives, zot, screenshot_client,
          fetched, last_fetched, prev_fetched>>

(***************************************************************************)
(* Bounds and input sets                                                   *)
(***************************************************************************)
MaxTargets == 2
MaxLogRows == 2

None == <<"<None>">>
NaN == <<"<NaN>">>
FetchFailed == <<"<no response>">>

\* Company names a user may type: two that differ in ' ' vs '_' (and in a
\* "nan" the loader strips), and an empty cell.
Companies == { <<"a", " ", "b">>, <<"a", "_", "b", "nan">>, << >> }
Roles == { <<"dev">> }
URLs == { <<"https://x/careers">> }
Dates == { <<"2026-01-01 09:00:00">> }

\* Page bodies a server may return.
Pages == { <<"jobs", "\r">>,
           <<"jobs", "\n">>,
           <<"We", " ", "do not", " ", "offer", " ", "Visa Sponsorship", ".">> }

\* What requests.get / raise_for_status / open may raise.
FetchErrors == { "HTTPError 404" }

Target(c, u, r) == [Company |-> c, URL |-> u, Role |-> r]
TargetRows == { Target(c, u, r) : c \in Companies, u \in URLs, r \in Roles }

RECURSIVE SeqsUpTo(_, _)
SeqsUpTo(S, n) ==
    IF n = 0 THEN { << >> }
    ELSE LET shorter == SeqsUpTo(S, n - 1)
         IN  shorter \cup { Append(s, x) : s \in shorter, x \in S }

EditedTables == SeqsUpTo(TargetRows, MaxTargets)

(***************************************************************************)
(* Directories and text files                                              *)
(***************************************************************************)
EmptyDir == [f \in {} |-> << >>]

WriteFile(dir, name, bytes) ==
    [f \in (DOMAIN dir) \cup {name} |-> IF f = name THEN bytes ELSE dir[f]]

\* f.write in text mode, newline=None: "\n" becomes os.linesep, which is
\* "\n" on the hosting platform; every other unit is written as it is.
WriteText(s) == s

\* f.read in text mode, newline=None (universal newlines): "\r\n" and a
\* lone "\r" are both returned as "\n".
RECURSIVE ReadText(_)
ReadText(b) ==
    IF b = << >> THEN << >>
    ELSE IF b[1] = "\r"
         THEN IF Len(b) >= 2 /\ b[2] = "\n"
              THEN <<"\n">> \o ReadText(SubSeq(b, 3, Len(b)))
              ELSE <<"\n">> \o ReadText(Tail(b))
         ELSE <<b[1]>> \o ReadText(Tail(b))

\* s.replace(' ', '_').replace('/', '-')
Sanitize(s) ==
    [k \in 1..Len(s) |-> IF s[k] = " " THEN "_"
                         ELSE IF s[k] = "/" THEN "-" ELSE s[k]]

Filename(company, role) ==
    Sanitize(company) \o <<"_">> \o Sanitize(role) \o <<".html">>

(***************************************************************************)
(* Spreadsheet cells                                                       *)
(***************************************************************************)
\* pandas' default NA strings, read back as NaN by read_excel.
STR_NA_VALUES ==
    { << >>, <<"N/A">>, <<"NA">>, <<"NULL">>, <<"NaN">>, <<"None">>,
      <<"n/a">>, <<"nan">>, <<"null">>, <<"#N/A">>, <<"<NA>">> }

ReadExcelCell(c) == IF c \in STR_NA_VALUES THEN NaN ELSE c

\* to_excel writes None and NaN as an empty cell.
WriteExcelCell(v) == IF v \in {None, NaN} THEN << >> ELSE v

ReadExcelRow(r) == [k \in DOMAIN r |-> ReadExcelCell(r[k])]
WriteExcelRow(r) == [k \in DOMAIN r |-> WriteExcelCell(r[k])]
ReadExcel(rows) == [k \in 1..Len(rows) |-> ReadExcelRow(rows[k])]
WriteExcel(rows) == [k \in 1..Len(rows) |-> WriteExcelRow(rows[k])]

\* astype(str).replace(['nan', 'NaN', 'None'], '', regex=True).fillna("")
CleanCell(v) ==
    LET s == IF v = NaN THEN <<"nan">> ELSE v
    IN  SelectSeq(s, LAMBDA u : u \notin {"nan", "NaN", "None"})

\* The registry as the run sees it: read_excel(INPUT_FILE), then cleaned.
df_targets ==
    [k \in 1..Len(targets_file) |->
        [c \in DOMAIN targets_file[k] |->
            CleanCell(ReadExcelCell(targets_file[k][c]))]]

(***************************************************************************)
(* Visa sponsorship check (regular expression over the page text)          *)
(***************************************************************************)
visa_keywords ==
    <<"visa sponsorship", "sponsors visa", "visa support", "work visa",
      "sponsor h1b", "sponsor visa">>

\* Units that begin and end with a non-word character (\W).
NonWordUnits == {".", " ", "\r", "\n"}

\* re.IGNORECASE: the case-folded unit.
Lower(u) ==
    CASE u = "Visa Sponsorship" -> "visa sponsorship"
      [] u = "We" -> "we"
      [] OTHER -> u

\* \b between text[p - 1] and text[p] when text[p] is a word unit.
WordBoundaryBefore(text, p) == p = 1 \/ text[p - 1] \in NonWordUnits
WordBoundaryAfter(text, p) == p = Len(text) \/ text[p + 1] \in NonWordUnits

\* Index of the first "." at or after s, 0 when there is none.
FirstDot(text, s) ==
    LET dots == { d \in s..Len(text) : text[d] = "." }
    IN  IF dots = {} THEN 0
        ELSE CHOOSE d \in dots : \A e \in dots : d <= e

\* Where the pattern  [^.]*?\bkeyword\b[^.]*\.  matched at s ends (0: no
\* match at s): the lazy prefix and the greedy suffix hold no ".", so the
\* match runs from s to the first "." after s and needs the keyword,
\* between word boundaries, before that ".".
MatchEnd(keyword, text, s) ==
    LET d == FirstDot(text, s)
    IN  IF d # 0 /\ \E p \in s..(d - 1) :
                        /\ Lower(text[p]) = keyword
                        /\ WordBoundaryBefore(text, p)
                        /\ WordBoundaryAfter(text, p)
        THEN d ELSE 0

\* re.findall scanning from s: non-overlapping matches, left to right.
RECURSIVE FindFrom(_, _, _)
FindFrom(keyword, text, s) ==
    IF s > Len(text) THEN << >>
    ELSE LET e == MatchEnd(keyword, text, s)
         IN  IF e # 0
             THEN <<SubSeq(text, s, e)>> \o FindFrom(keyword, text, e + 1)
             ELSE FindFrom(keyword, text, s + 1)

findall(keyword, text) == FindFrom(keyword, text, 1)

\* for keyword in visa_keywords: visa_evidence.extend(matches)
RECURSIVE EvidenceFrom(_, _)
EvidenceFrom(k, html_content) ==
    IF k > Len(visa_keywords) THEN << >>
    ELSE findall(visa_keywords[k], html_content)
             \o EvidenceFrom(k + 1, html_content)

visa_evidence(html_content) == EvidenceFrom(1, html_content)

visa_status(html_content) ==
    IF visa_evidence(html_content) # << >> THEN <<"Yes">> ELSE <<"No">>

\* "\n".join(set(visa_evidence)): a set has no fixed iteration order, so
\* every order of the distinct snippets is a possible string.
RECURSIVE Joins(_)
Joins(S) ==
    IF S = {} THEN { << >> }
    ELSE UNION { { IF S \ {x} = {} THEN x ELSE x \o <<"\n">> \o rest
                   : rest \in Joins(S \ {x}) } : x \in S }

visa_evidence_strs(html_content) ==
    LET ev == visa_evidence(html_content)
    IN  Joins({ ev[k] : k \in 1..Len(ev) })

(***************************************************************************)
(* Change detection and archiving                                          *)
(***************************************************************************)
\* Mutant of ChangeStatus: a missing old snapshot is reported as a change.
ChangeStatus_NoFirst(filename, dirOld, dirLatest) ==
    IF filename \notin DOMAIN dirOld
    THEN [has_changed |-> TRUE, status |-> <<"Change detected!">>]
    ELSE LET differ == ReadText(dirOld[filename]) # ReadText(dirLatest[filename])
         IN  [has_changed |-> differ,
              status |-> IF differ THEN <<"Change detected!">>
                         ELSE <<"No change">>]

\* if not old_path.exists(): ... else: old_f.read() != new_f.read()
ChangeStatus(filename, dirOld, dirLatest) ==
    IF filename \notin DOMAIN dirOld
    THEN [has_changed |-> TRUE, status |-> <<"First snapshot taken">>]
    ELSE LET differ == ReadText(dirOld[filename]) # ReadText(dirLatest[filename])
         IN  [has_changed |-> differ,
              status |-> IF differ THEN <<"Change detected!">>
                         ELSE <<"No change">>]

\* What the archiving block can do for one target: shutil.copy may raise
\* (it is outside every try); the Zotero calls and the screenshot calls may
\* raise inside their own try.
ArchiveOutcomes(has_changed) ==
    IF ~(has_changed /\ take_archives)
    THEN { [raised |-> FALSE, link |-> None, suffix |-> << >>] }
    ELSE { [raised |-> TRUE, link |-> None, suffix |-> << >>] }
         \cup
         ( IF zot
           THEN { [raised |-> FALSE, link |-> <<"https://www.zotero.org/items/KEY">>,
                   suffix |-> <<" (Archived to Zotero)">>],
                  [raised |-> FALSE, link |-> None, suffix |-> << >>] }
           ELSE IF screenshot_client
           THEN { [raised |-> FALSE, link |-> <<"Screenshots/shot.png">>,
                   suffix |-> <<" (Screenshot captured)">>],
                  [raised |-> FALSE, link |-> None, suffix |-> << >>] }
           ELSE { [raised |-> FALSE, link |-> None, suffix |-> << >>] } )

ResultRow(t, status, visa, evidence, archive) ==
    [Company |-> t.Company, URL |-> t.URL, Role |-> t.Role,
     Date |-> current_date, Status |-> status, Visa |-> visa,
     Evidence |-> evidence, Archive |-> archive]

(***************************************************************************)
(* State machine                                                           *)
(***************************************************************************)
Init ==
    /\ targets_file = << >>
    /\ results_file = [exists |-> FALSE, rows |-> << >>]
    /\ Latest_Snapshot = EmptyDir
    /\ Old_Snapshot = EmptyDir
    /\ pc = "ready"
    /\ idx = 0
    /\ results = << >>
    /\ current_date \in Dates
    /\ take_archives = FALSE
    /\ zot = FALSE
    /\ screenshot_client = FALSE
    /\ fetched = << >>
    /\ last_fetched = << >>
    /\ prev_fetched = << >>

\* edited_targets.duplicated(subset=['Company Name', 'Role']).any()
HasDuplicates(edited) ==
    \E i, j \in 1..Len(edited) :
        i < j /\ edited[i].Company = edited[j].Company
              /\ edited[i].Role = edited[j].Role

\* edited_targets[['Company Name', 'URL', 'Role']].eq("").any(axis=1).any()
HasEmptyField(edited) ==
    \E i \in 1..Len(edited) :
        edited[i].Company = << >> \/ edited[i].URL = << >> \/ edited[i].Role = << >>

SaveAccepts(edited) == ~HasDuplicates(edited) /\ ~HasEmptyField(edited)

\* "Save Targets": the button click reruns the script, so a finished run's
\* table is no longer shown; a rejected table leaves the file as it was.
SaveTargets(edited) ==
    /\ pc # "loop"
    /\ targets_file' = IF SaveAccepts(edited) THEN WriteExcel(edited)
                       ELSE targets_file
    /\ pc' = "ready"
    /\ results' = << >>
    /\ fetched' = << >>
    /\ UNCHANGED <<results_file, Latest_Snapshot, Old_Snapshot, idx,
                   current_date, take_archives, zot, screenshot_client,
                   last_fetched, prev_fetched>>

\* The log only grows; a run is explored while its rows still fit in n.
LogRoom(n) == Len(results_file.rows) + Len(df_targets) <= n

\* "Run Now" up to the for loop: the clients exist only when archiving is on
\* and their constructors did not raise.
RunNow(date, archive, zotero_ok, screenshot_ok) ==
    /\ pc # "loop"
    /\ results' = << >>
    /\ fetched' = << >>
    /\ IF Len(df_targets) = 0
       THEN /\ pc' = "ready"
            /\ UNCHANGED <<idx, current_date, take_archives, zot, screenshot_client>>
       ELSE /\ pc' = "loop"
            /\ idx' = 1
            /\ current_date' = date
            /\ take_archives' = archive
            /\ zot' = (archive /\ zotero_ok)
            /\ screenshot_client' = (archive /\ screenshot_ok)
    /\ UNCHANGED <<targets_file, results_file, Latest_Snapshot, Old_Snapshot,
                   last_fetched, prev_fetched>>

\* History record: what the server answered for target t in this run.
Response(t, body) == [Company |-> t.Company, Role |-> t.Role, body |-> body]

\* Mutant of FetchError: the except branch ends the loop (break) instead of
\* going on to the next target (continue).
FetchError_Break(e) ==
    /\ pc = "loop"
    /\ idx <= Len(df_targets)
    /\ results' = Append(results,
                         ResultRow(df_targets[idx], <<"Error: ", e>>, <<"N/A">>,
                                   << >>, None))
    /\ fetched' = Append(fetched, Response(df_targets[idx], FetchFailed))
    /\ idx' = Len(df_targets) + 1
    /\ UNCHANGED <<targets_file, results_file, Latest_Snapshot, Old_Snapshot, pc,
                   current_date, take_archives, zot, screenshot_client,
                   last_fetched, prev_fetched>>

\* One pass of the loop body whose try block raised: the except branch
\* appends the error row and continues with the next target.
FetchError(e) ==
    /\ pc = "loop"
    /\ idx <= Len(df_targets)
    /\ results' = Append(results,
                         ResultRow(df_targets[idx], <<"Error: ", e>>, <<"N/A">>,
                                   << >>, None))
    /\ fetched' = Append(fetched, Response(df_targets[idx], FetchFailed))
    /\ idx' = idx + 1
    /\ UNCHANGED <<targets_file, results_file, Latest_Snapshot, Old_Snapshot, pc,
                   current_date, take_archives, zot, screenshot_client,
                   last_fetched, prev_fetched>>

\* One pass of the loop body whose fetch and snapshot write succeeded.
ProcessTarget(html_content) ==
    /\ pc = "loop"
    /\ idx <= Len(df_targets)
    /\ LET t == df_targets[idx]
           filename == Filename(t.Company, t.Role)
           latest == WriteFile(Latest_Snapshot, filename, WriteText(html_content))
           change == ChangeStatus(filename, Old_Snapshot, latest)
       IN  /\ Latest_Snapshot' = latest
           /\ \E evidence \in visa_evidence_strs(html_content),
                 a \in ArchiveOutcomes(change.has_changed) :
                 IF a.raised
                 THEN /\ pc' = "exception"
                      /\ idx' = 0
                      /\ results' = << >>
                      /\ fetched' = << >>
                      /\ take_archives' = FALSE
                      /\ zot' = FALSE
                      /\ screenshot_client' = FALSE
                 ELSE /\ results' = Append(results,
                                           ResultRow(t, change.status \o a.suffix,
                                                     visa_status(html_content),
                                                     evidence, a.link))
                      /\ fetched' = Append(fetched, Response(t, html_content))
                      /\ idx' = idx + 1
                      /\ UNCHANGED <<pc, take_archives, zot, screenshot_client>>
    /\ UNCHANGED <<targets_file, results_file, Old_Snapshot, current_date,
                   last_fetched, prev_fetched>>

\* pd.concat([existing, results_df]) when the log exists, else results_df.
full_df(log, results_df) ==
    IF log.exists THEN ReadExcel(log.rows) \o results_df ELSE results_df

\* rmtree(OLD); copytree(LATEST, OLD)
RotatedOld(latest, old) == latest

\* Mutant of RotatedLatest: the rotation copies and leaves LATEST as it is.
RotatedLatest_Kept(latest) == latest

\* rmtree(LATEST); LATEST.mkdir()
RotatedLatest(latest) == EmptyDir

\* After the loop: rewrite the log, rotate the snapshots, show the table.
FinishRun ==
    /\ pc = "loop"
    /\ idx > Len(df_targets)
    /\ results_file' = [exists |-> TRUE,
                        rows |-> WriteExcel(full_df(results_file, results))]
    /\ Old_Snapshot' = RotatedOld(Latest_Snapshot, Old_Snapshot)
    /\ Latest_Snapshot' = RotatedLatest(Latest_Snapshot)
    /\ pc' = "complete"
    /\ idx' = 0
    /\ take_archives' = FALSE
    /\ zot' = FALSE
    /\ screenshot_client' = FALSE
    /\ fetched' = << >>
    /\ last_fetched' = fetched
    /\ prev_fetched' = last_fetched
    /\ UNCHANGED <<targets_file, results, current_date>>

Next ==
    \/ \E edited \in EditedTables : SaveTargets(edited)
    \/ /\ LogRoom(MaxLogRows)
       /\ \E date \in Dates, archive, zotero_ok, screenshot_ok \in BOOLEAN :
              RunNow(date, archive, zotero_ok, screenshot_ok)
    \/ \E e \in FetchErrors : FetchError(e)
    \/ \E html_content \in Pages : ProcessTarget(html_content)
    \/ FinishRun

Spec == Init /\ [][Next]_vars

\* The same program with room for one more log row: two completed runs, one
\* of them over two targets.
NextLongLog ==
    \/ \E edited \in EditedTables : SaveTargets(edited)
    \/ /\ LogRoom(MaxLogRows + 1)
       /\ \E date \in Dates, archive, zotero_ok, screenshot_ok \in BOOLEAN :
              RunNow(date, archive, zotero_ok, screenshot_ok)
    \/ \E e \in FetchErrors : FetchError(e)
    \/ \E html_content \in Pages : ProcessTarget(html_content)
    \/ FinishRun

SpecLongLog == Init /\ [][NextLongLog]_vars

(***************************************************************************)
(* Properties                                                              *)
(***************************************************************************)
IsErrorRow(r) == r.Status[1] = "Error: "
IsFirst(r) == r.Status[1] = "First snapshot taken"
IsChanged(r) == r.Status[1] = "Change detected!"
IsNoChange(r) == r.Status[1] = "No change"
RowFile(r) == Filename(r.Company, r.Role)

\* C1: during a run, every row of a target whose fetch succeeded has the
\* first-snapshot status if and only if the Old_Snapshot directory holds no
\* file for the target's key (the directory is what the target saw: the loop
\* never writes to it).
C1_FirstIffNoOld ==
    pc = "loop" =>
        \A k \in 1..Len(results) :
            ~IsErrorRow(results[k]) =>
                (IsFirst(results[k]) <=> RowFile(results[k]) \notin DOMAIN Old_Snapshot)

\* A run has recorded first-snapshot rows for two different page bodies.
C1_Witness ==
    /\ pc = "loop"
    /\ Len(results) = 2
    /\ IsFirst(results[1]) /\ IsFirst(results[2])
    /\ fetched[1].body # fetched[2].body
    /\ RowFile(results[1]) \notin DOMAIN Old_Snapshot

\* C2: for every target whose fetch succeeded while an old snapshot existed,
\* the status is "changed" exactly when the fetched text differs from the
\* old snapshot's text, and "unchanged" exactly when the two are identical.
C2_ChangedIffTextDiffers ==
    pc = "loop" =>
        \A k \in 1..Len(results) :
            (~IsErrorRow(results[k]) /\ RowFile(results[k]) \in DOMAIN Old_Snapshot) =>
                /\ IsChanged(results[k]) <=>
                       fetched[k].body # Old_Snapshot[RowFile(results[k])]
                /\ IsNoChange(results[k]) <=>
                       fetched[k].body = Old_Snapshot[RowFile(results[k])]

\* C3: the visa verdict of a fetched page is "Yes" if and only if there is
\* evidence and no evidence sentence holds a negation keyword.
C3_YesIffUnnegatedEvidence ==
    LET negation_keywords ==
            {"no", "not", "without", "do not", "does not", "cannot", "unavailable"}
    IN  \A k \in 1..Len(results) :
            ~IsErrorRow(results[k]) =>
                ( results[k].Visa = <<"Yes">> <=>
                    /\ results[k].Evidence # << >>
                    /\ \A p \in 1..Len(results[k].Evidence) :
                           Lower(results[k].Evidence[p]) \notin negation_keywords )

C5_ArchiveFailureNonFatal ==
    [][(pc = "loop" /\ idx <= Len(df_targets)) =>
           (pc' = "loop" /\ Len(results') = Len(results) + 1)]_vars

\* C6: after two consecutive completed runs in which a target's fetch
\* succeeded with identical content, the old snapshot of the target's key
\* is the snapshot written for it in the first of them, and the second run
\* reports the target as unchanged.
C6_OldIsRunOneLatest ==
    pc = "complete" =>
        \A i \in 1..Len(prev_fetched), j \in 1..Len(last_fetched) :
            ( /\ prev_fetched[i].Company = last_fetched[j].Company
              /\ prev_fetched[i].Role = last_fetched[j].Role
              /\ prev_fetched[i].body = last_fetched[j].body
              /\ last_fetched[j].body # FetchFailed ) =>
                /\ RowFile(results[j]) \in DOMAIN Old_Snapshot
                /\ Old_Snapshot[RowFile(results[j])] = WriteText(prev_fetched[i].body)
                /\ IsNoChange(results[j])

\* C7 (as stated): at any time every key fetched successfully has exactly one
\* latest snapshot.
C7_AlwaysOneLatest ==
    pc \in {"loop", "complete"} =>
        \A k \in 1..Len(results) :
            ~IsErrorRow(results[k]) => RowFile(results[k]) \in DOMAIN Latest_Snapshot

\* C7 (amended): a key fetched successfully in a run has a latest snapshot
\* from its fetch until the run's rotation; once the run has completed the
\* Latest_Snapshot directory is empty and the key has an old snapshot.
C7_LatestUntilRotation ==
    /\ pc = "loop" =>
           \A k \in 1..Len(results) :
               ~IsErrorRow(results[k]) => RowFile(results[k]) \in DOMAIN Latest_Snapshot
    /\ pc = "complete" =>
           /\ Latest_Snapshot = EmptyDir
           /\ \A k \in 1..Len(results) :
                  ~IsErrorRow(results[k]) => RowFile(results[k]) \in DOMAIN Old_Snapshot

\* A completed run that fetched a target: no latest snapshot, one old one.
C7_Witness ==
    /\ pc = "complete"
    /\ \E k \in 1..Len(results) :
           /\ ~IsErrorRow(results[k])
           /\ RowFile(results[k]) \notin DOMAIN Latest_Snapshot
           /\ RowFile(results[k]) \in DOMAIN Old_Snapshot

\* C8: a completing run leaves every row the log held unchanged and in
\* place, and adds exactly one row per target after them.
C8_LogAppendOnly ==
    [][(pc = "loop" /\ pc' = "complete") =>
           /\ Len(results_file'.rows) = Len(results_file.rows) + Len(df_targets)
           /\ SubSeq(results_file'.rows, 1, Len(results_file.rows)) = results_file.rows]_vars

\* C9: after a completed run in which a target's fetch failed, no old
\* snapshot exists for the target's key, unless another target shares it.
C9_FailedFetchLeavesNoOld ==
    pc = "complete" =>
        \A k \in 1..Len(results) :
            ( /\ IsErrorRow(results[k])
              /\ \A m \in 1..Len(results) :
                     m # k => RowFile(results[m]) # RowFile(results[k]) ) =>
                RowFile(results[k]) \notin DOMAIN Old_Snapshot

\* C10: the targets of a saved registry have pairwise distinct snapshot
\* file names.
C10_DistinctKeys ==
    \A i, j \in 1..Len(df_targets) :
        i # j => Filename(df_targets[i].Company, df_targets[i].Role)
                     # Filename(df_targets[j].Company, df_targets[j].Role)

====
